---------------------------- MODULE Spec2Model ----------------------------
(***************************************************************************)
(* Model of sfl::SequenceFaceLandmarksImpl and sfl::render                 *)
(* (sequence_face_landmarks.cpp), WITH_PROTOBUF build.                     *)
(*                                                                         *)
(* A session owns m_frames, m_frame_scale, m_model_path, m_detector and    *)
(* m_pose_model.  The file system is one artifact file.  The variables     *)
(* lastOp, prevOp, arg, err, ret, calls, expected and saved are history    *)
(* variables:                                                              *)
(* they record the last call, its outcome and what the caller observed,    *)
(* and they never influence the program state.                             *)
(***************************************************************************)
EXTENDS Integers, Sequences, FiniteSets, TLC

VARIABLES m_frames, m_frame_scale, m_model_path, m_detector, m_pose_model,
          artifact, alive, canvas,
          lastOp, prevOp, arg, err, ret, calls, expected, saved

vars == <<m_frames, m_frame_scale, m_model_path, m_detector, m_pose_model,
          artifact, alive, canvas,
          lastOp, prevOp, arg, err, ret, calls, expected, saved>>

(***************************************************************************)
(* Bounds of the model.                                                    *)
(***************************************************************************)
MaxFrames == 2
MaxCoord == 4
MaxPoints == 70
MaxDamage == 1

(***************************************************************************)
(* Single-precision arithmetic.  A positive float is [m, e] with value     *)
(* m * 2^e and 2^23 <= m < 2^24 (IEEE binary32, 24-bit significand).       *)
(***************************************************************************)
Pow2(n) == IF n <= 0 THEN 1 ELSE 2 ^ n

Abs(x) == IF x < 0 THEN 0 - x ELSE x

Sgn(x) == IF x < 0 THEN 0 - 1 ELSE IF x > 0 THEN 1 ELSE 0

MantBits == 24

F_1_0 == [m |-> 8388608, e |-> 0 - 23]
F_0_5 == [m |-> 8388608, e |-> 0 - 24]
F_2_0 == [m |-> 8388608, e |-> 0 - 22]
F_0_75 == [m |-> 12582912, e |-> 0 - 24]
F_0_4 == [m |-> 13421773, e |-> 0 - 25]
F_0_3 == [m |-> 10066330, e |-> 0 - 25]

\* the scale factors a session is created with (float frame_scale)
Scales == {F_1_0, F_0_5, F_2_0, F_0_75, F_0_4, F_0_3}

\* number of doublings that bring a (> 0) to at least mant
RECURSIVE NormShift(_, _)
NormShift(a, mant) ==
    IF a >= mant THEN 0
    ELSE IF 64 * a < mant THEN 6 + NormShift(64 * a, mant)
    ELSE 1 + NormShift(2 * a, mant)

\* k more bits of the binary long division of r by mant (r < mant < 2^24), up
\* to six bits at a step; q holds the quotient bits so far
RECURSIVE DivBits(_, _, _, _)
DivBits(r, mant, k, q) ==
    IF k = 0 THEN [q |-> q, r |-> r]
    ELSE LET p == IF k >= 6 THEN 64 ELSE Pow2(k)
         IN DivBits((r * p) % mant, mant, IF k >= 6 THEN k - 6 ELSE 0,
                    q * p + ((r * p) \div mant))

\* the float quotient a / s for an integer 0 < a < 2^24 (exactly representable
\* as a float): the exact quotient rounded to 24 significant bits, ties to even
FloatDiv(a, s) ==
    LET t == NormShift(a, s.m)
        d == DivBits(a * Pow2(t) - s.m, s.m, MantBits - 1, 1)
        up == 2 * d.r > s.m \/ (2 * d.r = s.m /\ d.q % 2 = 1)
    IN [m |-> IF up THEN d.q + 1 ELSE d.q, e |-> 0 - (MantBits - 1) - t - s.e]

\* std::round(float) of a positive float: nearest integer, halves away from zero
StdRound(f) ==
    IF f.e >= 0 THEN f.m * Pow2(f.e)
    ELSE IF 0 - f.e > MantBits + 1 THEN 0
    ELSE (f.m + Pow2(0 - f.e - 1)) \div Pow2(0 - f.e)

\* (int)std::round(x / m_frame_scale) for an int or long x
ScaleBackMutTrunc(x, s) ==
    IF x = 0 THEN 0
    ELSE LET f == FloatDiv(Abs(x), s)
         IN Sgn(x) * (IF f.e >= 0 THEN f.m * Pow2(f.e) ELSE f.m \div Pow2(0 - f.e))

ScaleBack(x, s) ==
    IF x = 0 THEN 0 ELSE Sgn(x) * StdRound(FloatDiv(Abs(x), s))

\* x divided by the value of s in exact arithmetic, rounded to the nearest
\* integer, halves away from zero
ExactRound(x, s) ==
    LET n == Abs(x) * Pow2(0 - s.e)
        q == n \div s.m
        r == n % s.m
    IN Sgn(x) * (IF 2 * r >= s.m THEN q + 1 ELSE q)


(***************************************************************************)
(* Data model: Frame = [faces, width, height], Face = [bbox, landmarks],   *)
(* bbox = cv::Rect [x, y, width, height], landmark = cv::Point [x, y].     *)
(* An image carries what the external detector and predictor return on its *)
(* scaled copy: dets = sequence of [rect, parts] in scaled coordinates.    *)
(***************************************************************************)
NoFrame == [none |-> TRUE]

\* what an out-of-range read of the vector's storage may yield
GarbageFrame == [faces |-> <<>>, width |-> 0 - 1, height |-> 0 - 1]

ModelPath == "shape_predictor.dat"
MissingPath == "missing.dat"
ArtifactPath == "sequence.pb"
NoArtifactPath == "absent.pb"

ErrNoModel == "A landmarks model file is not set!"
ErrDlibPixel == "dlib: pixel type does not match the cv::Mat"
ErrDeserialize == "dlib: unable to open model file"
ErrCrash == "crash"

Det(l, t, w, h, pts) ==
    [rect |-> [left |-> l, top |-> t, width |-> w, height |-> h], parts |-> pts]

Pt(x, y) == [x |-> x, y |-> y]

ImgEmpty == [channels |-> 1, cols |-> 4, rows |-> 3, dets |-> <<>>]

ImgFaces == [channels |-> 3, cols |-> 6, rows |-> 5,
             dets |-> <<Det(1, 0 - 1, 3, 2, <<Pt(1, 2), Pt(0 - 1, 3)>>),
                        Det(2, 1, 1, 3, <<Pt(3, 1), Pt(2, 2)>>)>>]

ImgBGRA == [channels |-> 4, cols |-> 4, rows |-> 3, dets |-> <<>>]

Images == {ImgEmpty, ImgFaces, ImgBGRA}

Coord == (0 - MaxCoord) .. MaxCoord

\* images whose detections range over all coordinates
RichImages ==
    {[channels |-> 3, cols |-> 6, rows |-> 5,
      dets |-> <<Det(v, 0 - v, Abs(v) + 1, Abs(v), <<Pt(v, v + 1), Pt(0 - v, 1)>>),
                 Det(v + 1, 1, 2, Abs(v), <<Pt(2, v)>>)>>] : v \in Coord}

(***************************************************************************)
(* dlib_obj_to_points: p.x = (float)obj_p.x() stored into an int.  A long  *)
(* below 2^24 in magnitude is exact as a float; larger ones lose their low *)
(* bits (round to 24 significant bits, ties to even).                      *)
(***************************************************************************)
LongToFloatToInt(x) ==
    IF Abs(x) < Pow2(MantBits) THEN x
    ELSE LET \* Abs(x) < 2^(24 + k), k = number of low bits dropped
             k == CHOOSE j \in 1..8 : Abs(x) < Pow2(MantBits + j)
                                      /\ Abs(x) >= Pow2(MantBits + j - 1)
             q == Abs(x) \div Pow2(k)
             r == Abs(x) % Pow2(k)
             up == 2 * r > Pow2(k) \/ (2 * r = Pow2(k) /\ q % 2 = 1)
         IN Sgn(x) * Pow2(k) * (IF up THEN q + 1 ELSE q)

dlib_obj_to_points(parts) ==
    [i \in 1..Len(parts) |->
        [x |-> LongToFloatToInt(parts[i].x), y |-> LongToFloatToInt(parts[i].y)]]

\* m_pose_model(dlib_frame, dlib_face): a default-constructed shape_predictor
\* has an empty initial shape and returns a detection with no parts
PoseModelParts(pose, det) == IF pose = "loaded" THEN det.parts ELSE <<>>

\* number of channels of dlib's pixel_traits<pixel_type>
PixelTraitsNum(pixel_type) == IF pixel_type = "bgr_pixel" THEN 3 ELSE 1

\* one Face of extract_landmarks' loop body
ExtractFace(det, scale, pose) ==
    LET pts == dlib_obj_to_points(PoseModelParts(pose, det))
    IN [bbox |-> [x |-> ScaleBack(det.rect.left, scale),
                  y |-> ScaleBack(det.rect.top, scale),
                  width |-> ScaleBack(det.rect.width, scale),
                  height |-> ScaleBack(det.rect.height, scale)],
        landmarks |-> [j \in 1..Len(pts) |->
                          [x |-> ScaleBack(pts[j].x, scale),
                           y |-> ScaleBack(pts[j].y, scale)]]]

\* extract_landmarks<pixel_type>(frame, frame_landmarks): the frame with its
\* faces filled in, whether dlib threw, and the collaborators invoked in order
extract_landmarks(pixel_type, img, frame_landmarks, scale, pose) ==
    LET resize == IF scale # F_1_0 THEN <<"cv::resize">> ELSE <<>>
    IN IF img.channels # PixelTraitsNum(pixel_type)
       THEN [ok |-> FALSE, frame |-> frame_landmarks,
             calls |-> resize \o <<"cv_image">>]
       ELSE [ok |-> TRUE,
             frame |-> [frame_landmarks EXCEPT !.faces =
                          [i \in 1..Len(img.dets) |->
                              ExtractFace(img.dets[i], scale, pose)]],
             calls |-> resize \o <<"cv_image", "m_detector">>
                       \o [i \in 1..Len(img.dets) |-> "m_pose_model"]]


(***************************************************************************)
(* The serialized artifact (sequence_face_landmarks.proto, io::Sequence).  *)
(* A file is a sequence of field tokens [tag, wt, v]: a "varint" token     *)
(* carries the int32 v, a "len" token announces a nested message made of   *)
(* the v tokens that follow it.  A file is [exists, data]; NoFile is a path *)
(* where no file exists.                                                   *)
(*   Sequence : 1 frames*      Frame : 1 width, 2 height, 3 faces*         *)
(*   Face     : 1 bbox, 2 landmarks*                                       *)
(*   BoundingBox : 1 left, 2 top, 3 width, 4 height     Point : 1 x, 2 y   *)
(***************************************************************************)
NoFile == [exists |-> FALSE, data |-> <<>>]

File(data) == [exists |-> TRUE, data |-> data]

V(tag, v) == <<[tag |-> tag, wt |-> "varint", v |-> v]>>

L(tag, body) == <<[tag |-> tag, wt |-> "len", v |-> Len(body)]>> \o body

\* a token no parser accepts (an invalid wire type)
BadToken == [tag |-> 0, wt |-> "bad", v |-> 0]

RECURSIVE Concat(_)
Concat(ss) == IF ss = <<>> THEN <<>> ELSE Head(ss) \o Concat(Tail(ss))

io_Default(kind) ==
    CASE kind = "Sequence" -> [frames |-> <<>>]
      [] kind = "Frame" -> [width |-> 0, height |-> 0, faces |-> <<>>]
      [] kind = "Face" -> [bbox |-> [left |-> 0, top |-> 0, width |-> 0, height |-> 0],
                           landmarks |-> <<>>]
      [] kind = "BoundingBox" -> [left |-> 0, top |-> 0, width |-> 0, height |-> 0]
      [] kind = "Point" -> [x |-> 0, y |-> 0]

SerializePoint(p) == V(1, p.x) \o V(2, p.y)

SerializeBBox(b) == V(1, b.left) \o V(2, b.top) \o V(3, b.width) \o V(4, b.height)

SerializeFace(f) ==
    L(1, SerializeBBox(f.bbox))
    \o Concat([i \in 1..Len(f.landmarks) |-> L(2, SerializePoint(f.landmarks[i]))])

SerializeFrame(f) ==
    V(1, f.width) \o V(2, f.height)
    \o Concat([i \in 1..Len(f.faces) |-> L(3, SerializeFace(f.faces[i]))])

\* sequence.SerializeToOstream
SerializeToOstream(sequence) ==
    Concat([i \in 1..Len(sequence.frames) |-> L(1, SerializeFrame(sequence.frames[i]))])

\* the message type of a nested field, "" for a field the schema does not have
SubKind(kind, tag) ==
    CASE kind = "Sequence" /\ tag = 1 -> "Frame"
      [] kind = "Frame" /\ tag = 3 -> "Face"
      [] kind = "Face" /\ tag = 1 -> "BoundingBox"
      [] kind = "Face" /\ tag = 2 -> "Point"
      [] OTHER -> ""

SetScalar(kind, msg, tag, v) ==
    CASE kind = "Frame" /\ tag = 1 -> [msg EXCEPT !.width = v]
      [] kind = "Frame" /\ tag = 2 -> [msg EXCEPT !.height = v]
      [] kind = "BoundingBox" /\ tag = 1 -> [msg EXCEPT !.left = v]
      [] kind = "BoundingBox" /\ tag = 2 -> [msg EXCEPT !.top = v]
      [] kind = "BoundingBox" /\ tag = 3 -> [msg EXCEPT !.width = v]
      [] kind = "BoundingBox" /\ tag = 4 -> [msg EXCEPT !.height = v]
      [] kind = "Point" /\ tag = 1 -> [msg EXCEPT !.x = v]
      [] kind = "Point" /\ tag = 2 -> [msg EXCEPT !.y = v]
      [] OTHER -> msg

\* the nested message a "len" field is merged into
SubStart(kind, msg, tag) ==
    IF kind = "Face" /\ tag = 1 THEN msg.bbox ELSE io_Default(SubKind(kind, tag))

SetSub(kind, msg, tag, sub) ==
    CASE kind = "Sequence" /\ tag = 1 -> [msg EXCEPT !.frames = Append(@, sub)]
      [] kind = "Frame" /\ tag = 3 -> [msg EXCEPT !.faces = Append(@, sub)]
      [] kind = "Face" /\ tag = 1 -> [msg EXCEPT !.bbox = sub]
      [] kind = "Face" /\ tag = 2 -> [msg EXCEPT !.landmarks = Append(@, sub)]
      [] OTHER -> msg

\* MergePartialFromCodedStream: parses toks into msg field by field and stops
\* at the first error, keeping what was merged up to it (a nested message is
\* added to its parent before its own fields are read)
RECURSIVE Merge(_, _, _)
Merge(kind, msg, toks) ==
    IF toks = <<>> THEN [ok |-> TRUE, msg |-> msg]
    ELSE LET h == Head(toks)
             rest == Tail(toks)
             n == IF h.v > Len(rest) THEN Len(rest) ELSE h.v
             after == SubSeq(rest, n + 1, Len(rest))
         IN CASE h.wt = "varint" -> Merge(kind, SetScalar(kind, msg, h.tag, h.v), rest)
              [] h.wt = "len" /\ SubKind(kind, h.tag) = "" ->
                   IF h.v > Len(rest) THEN [ok |-> FALSE, msg |-> msg]
                   ELSE Merge(kind, msg, after)
              [] h.wt = "len" /\ SubKind(kind, h.tag) # "" ->
                   LET r == Merge(SubKind(kind, h.tag), SubStart(kind, msg, h.tag),
                                  SubSeq(rest, 1, n))
                       merged == SetSub(kind, msg, h.tag, r.msg)
                   IN IF ~r.ok \/ h.v > Len(rest) THEN [ok |-> FALSE, msg |-> merged]
                      ELSE Merge(kind, merged, after)
              [] OTHER -> [ok |-> FALSE, msg |-> msg]

\* sequence.ParseFromIstream(&input): false on a stream that failed to open
ParseFromIstream(file) ==
    IF ~file.exists THEN [ok |-> FALSE, msg |-> io_Default("Sequence")]
    ELSE Merge("Sequence", io_Default("Sequence"), file.data)

(***************************************************************************)
(* save / load: the conversions between m_frames and io::Sequence.         *)
(***************************************************************************)
\* save, lines 107-131
FramesToIo(frames) ==
    [frames |->
      [i \in 1..Len(frames) |->
        [width |-> frames[i].width, height |-> frames[i].height,
         faces |->
           [k \in 1..Len(frames[i].faces) |->
              LET face == frames[i].faces[k]
              IN [bbox |-> [left |-> face.bbox.x, top |-> face.bbox.y,
                            width |-> face.bbox.width, height |-> face.bbox.height],
                  landmarks |-> [j \in 1..Len(face.landmarks) |->
                                   [x |-> face.landmarks[j].x,
                                    y |-> face.landmarks[j].y]]]]]]]

\* load, lines 72-98
IoToFramesMutSwap(sequence) ==
    [i \in 1..Len(sequence.frames) |->
      [width |-> sequence.frames[i].width, height |-> sequence.frames[i].height,
       faces |->
         [k \in 1..Len(sequence.frames[i].faces) |->
            LET io_face == sequence.frames[i].faces[k]
            IN [bbox |-> [x |-> io_face.bbox.top, y |-> io_face.bbox.left,
                          width |-> io_face.bbox.width, height |-> io_face.bbox.height],
                landmarks |-> [j \in 1..Len(io_face.landmarks) |->
                                 [x |-> io_face.landmarks[j].x,
                                  y |-> io_face.landmarks[j].y]]]]]]

IoToFrames(sequence) ==
    [i \in 1..Len(sequence.frames) |->
      [width |-> sequence.frames[i].width, height |-> sequence.frames[i].height,
       faces |->
         [k \in 1..Len(sequence.frames[i].faces) |->
            LET io_face == sequence.frames[i].faces[k]
            IN [bbox |-> [x |-> io_face.bbox.left, y |-> io_face.bbox.top,
                          width |-> io_face.bbox.width, height |-> io_face.bbox.height],
                landmarks |-> [j \in 1..Len(io_face.landmarks) |->
                                 [x |-> io_face.landmarks[j].x,
                                  y |-> io_face.landmarks[j].y]]]]]]


(***************************************************************************)
(* The operations of SequenceFaceLandmarksImpl as functions of the state.  *)
(***************************************************************************)
\* addFrame: the frames after the call, the exception thrown ("" for none),
\* the Frame returned and the collaborators invoked
addFrameMutPushFirst(frames, model_path, scale, pose, img) ==
    LET pushed == Append(frames, [faces |-> <<>>, width |-> img.cols, height |-> img.rows])
    IN IF model_path = ""
       THEN [frames |-> pushed, err |-> ErrNoModel, ret |-> NoFrame, calls |-> <<>>]
       ELSE LET pixel_type == IF img.channels = 3 THEN "bgr_pixel" ELSE "unsigned char"
                r == extract_landmarks(pixel_type, img, pushed[Len(pushed)], scale, pose)
            IN [frames |-> [pushed EXCEPT ![Len(pushed)] = r.frame],
                err |-> IF r.ok THEN "" ELSE ErrDlibPixel,
                ret |-> IF r.ok THEN r.frame ELSE NoFrame,
                calls |-> r.calls]

addFrame(frames, model_path, scale, pose, img) ==
    IF model_path = ""
    THEN [frames |-> frames, err |-> ErrNoModel, ret |-> NoFrame, calls |-> <<>>]
    ELSE LET pushed == Append(frames, [faces |-> <<>>, width |-> img.cols,
                                       height |-> img.rows])
             pixel_type == IF img.channels = 3 THEN "bgr_pixel" ELSE "unsigned char"
             r == extract_landmarks(pixel_type, img, pushed[Len(pushed)], scale, pose)
         IN [frames |-> [pushed EXCEPT ![Len(pushed)] = r.frame],
             err |-> IF r.ok THEN "" ELSE ErrDlibPixel,
             ret |-> IF r.ok THEN r.frame ELSE NoFrame,
             calls |-> r.calls]

\* setModel: the binding [path, detector, pose] after the call and the exception
setModelMutUnbind(b, modelPath) ==
    IF modelPath = ""
    THEN [b |-> [path |-> "", detector |-> "default", pose |-> "default"], err |-> ""]
    ELSE IF modelPath = MissingPath
    THEN [b |-> [path |-> modelPath, detector |-> "frontal_face_detector",
                 pose |-> b.pose], err |-> ErrDeserialize]
    ELSE [b |-> [path |-> modelPath, detector |-> "frontal_face_detector",
                 pose |-> "loaded"], err |-> ""]

setModel(b, modelPath) ==
    IF modelPath = "" THEN [b |-> b, err |-> ""]
    ELSE IF modelPath = MissingPath
    THEN [b |-> [path |-> modelPath, detector |-> "frontal_face_detector",
                 pose |-> b.pose], err |-> ErrDeserialize]
    ELSE [b |-> [path |-> modelPath, detector |-> "frontal_face_detector",
                 pose |-> "loaded"], err |-> ""]

\* clear
clear(frames) == <<>>

\* load: clear(), parse (the result of ParseFromIstream is not looked at),
\* convert
load(frames, file) == IoToFrames(ParseFromIstream(file).msg)

\* save: convert, serialize, write with truncation
save(frames) == File(SerializeToOstream(FramesToIo(frames)))

(***************************************************************************)
(* render(img, landmarks, drawLabels, color, thickness): the drawing calls *)
(* made on img, in order.  A call records the indices it read and the      *)
(* points found there.                                                     *)
(***************************************************************************)
NumLandmarks == 68

\* what a read past the end of the landmark vector may yield
GarbagePoint == [x |-> 0 - 1, y |-> 0 - 1]

\* a synthetic landmark list of n points with known coordinates
LandmarksOf(n) == [i \in 1..n |-> Pt(2 * (i - 1), 100 + i - 1)]

\* cv::line(img, landmarks[a], landmarks[b], color, thickness)
Line(landmarks, a, b, thickness) ==
    [op |-> "line", a |-> a, b |-> b, pt1 |-> landmarks[a + 1],
     pt2 |-> landmarks[b + 1], thickness |-> thickness]

\* for (i = lo; i <= hi; ++i) cv::line(img, landmarks[i], landmarks[i - 1], ...)
LineLoop(landmarks, lo, hi, thickness) ==
    [k \in 1..(hi - lo + 1) |-> Line(landmarks, lo + k - 1, lo + k - 2, thickness)]

\* the branch landmarks.size() == 68
RenderContoursMutJaw(landmarks, thickness) ==
    LineLoop(landmarks, 2, 16, thickness)
    \o LineLoop(landmarks, 28, 30, thickness)
    \o LineLoop(landmarks, 18, 21, thickness)
    \o LineLoop(landmarks, 23, 26, thickness)
    \o LineLoop(landmarks, 31, 35, thickness) \o <<Line(landmarks, 30, 35, thickness)>>
    \o LineLoop(landmarks, 37, 41, thickness) \o <<Line(landmarks, 36, 41, thickness)>>
    \o LineLoop(landmarks, 43, 47, thickness) \o <<Line(landmarks, 42, 47, thickness)>>
    \o LineLoop(landmarks, 49, 59, thickness) \o <<Line(landmarks, 48, 59, thickness)>>
    \o LineLoop(landmarks, 61, 67, thickness) \o <<Line(landmarks, 60, 67, thickness)>>

RenderContours(landmarks, thickness) ==
    LineLoop(landmarks, 1, 16, thickness)
    \o LineLoop(landmarks, 28, 30, thickness)
    \o LineLoop(landmarks, 18, 21, thickness)
    \o LineLoop(landmarks, 23, 26, thickness)
    \o LineLoop(landmarks, 31, 35, thickness) \o <<Line(landmarks, 30, 35, thickness)>>
    \o LineLoop(landmarks, 37, 41, thickness) \o <<Line(landmarks, 36, 41, thickness)>>
    \o LineLoop(landmarks, 43, 47, thickness) \o <<Line(landmarks, 42, 47, thickness)>>
    \o LineLoop(landmarks, 49, 59, thickness) \o <<Line(landmarks, 48, 59, thickness)>>
    \o LineLoop(landmarks, 61, 67, thickness) \o <<Line(landmarks, 60, 67, thickness)>>

\* the else branch: for (i = 0; i < 68; ++i) cv::circle(img, landmarks[i], ...).
\* Reading landmarks[i] with i >= size() is undefined: with ub = "read" the
\* loop goes on with whatever it read, with ub = "crash" the process dies at
\* the first such read
RenderMarkers(landmarks, thickness, ub) ==
    LET n == Len(landmarks)
        last == IF ub = "crash" /\ n < NumLandmarks THEN n ELSE NumLandmarks
    IN [k \in 1..last |->
          [op |-> "circle", a |-> k - 1,
           pt |-> IF k <= n THEN landmarks[k] ELSE GarbagePoint,
           radius |-> thickness, fill |-> 0 - 1]]

\* the label loop: cv::putText(img, std::to_string(i), landmarks[i], ...)
RenderLabels(landmarks, thickness) ==
    [k \in 1..Len(landmarks) |->
       [op |-> "putText", a |-> k - 1, text |-> k - 1, pt |-> landmarks[k],
        thickness |-> thickness]]

\* the whole call: the drawing calls, the indices read, whether the process died
render(landmarks, drawLabels, thickness, ub) ==
    LET n == Len(landmarks)
        crashed == n # NumLandmarks /\ n < NumLandmarks /\ ub = "crash"
        shapes == IF n = NumLandmarks THEN RenderContours(landmarks, thickness)
                  ELSE RenderMarkers(landmarks, thickness, ub)
        labels == IF drawLabels /\ ~crashed THEN RenderLabels(landmarks, thickness)
                  ELSE <<>>
        lineReads == UNION {{shapes[k].a, shapes[k].b} : k \in 1..Len(shapes)}
        markReads == IF crashed THEN 0..n ELSE 0..(NumLandmarks - 1)
    IN [ops |-> shapes \o labels,
        reads |-> (IF n = NumLandmarks THEN lineReads ELSE markReads)
                  \cup {labels[k].a : k \in 1..Len(labels)},
        crashed |-> crashed]

\* the last call as the next one remembers it: a clear, a setModel with an
\* empty path, or anything else
OpName ==
    IF lastOp = "clear" THEN "clear"
    ELSE IF lastOp = "setModel" /\ arg.path = "" THEN "setModel-empty"
    ELSE "other"

Binding == [path |-> m_model_path, detector |-> m_detector, pose |-> m_pose_model]

(***************************************************************************)
(* Initial states: create(frame_scale) or create(modelPath, frame_scale)   *)
(* with a loadable model; the artifact path holds no file or a file that   *)
(* an earlier session saved.                                               *)
(***************************************************************************)
EarlierFrames ==
    <<[faces |-> <<[bbox |-> [x |-> 0 - 2, y |-> 1, width |-> 5, height |-> 4],
                    landmarks |-> <<[x |-> 7, y |-> 0 - 3]>>],
                   [bbox |-> [x |-> 3, y |-> 0, width |-> 1, height |-> 2],
                    landmarks |-> <<>>]>>,
       width |-> 8, height |-> 9]>>

InitSession(scales, modelPaths, earlier) ==
    /\ m_frames = <<>>
    /\ m_frame_scale \in scales
    /\ \E modelPath \in modelPaths :
         LET r == setModel([path |-> "", detector |-> "default", pose |-> "default"],
                           modelPath)
         IN /\ m_model_path = r.b.path
            /\ m_detector = r.b.detector
            /\ m_pose_model = r.b.pose
    /\ \E fs \in earlier :
         /\ artifact = IF fs = <<>> THEN NoFile ELSE save(fs)
         /\ saved = [valid |-> fs # <<>>, frames |-> fs, damages |-> 0]
    /\ alive = TRUE
    /\ canvas = <<>>
    /\ lastOp = "create"
    /\ prevOp = "other"
    /\ arg = [none |-> TRUE]
    /\ err = ""
    /\ ret = NoFrame
    /\ calls = <<>>
    /\ expected = 0

\* a session of either kind, at full or half resolution
Init == InitSession({F_1_0, F_0_5}, {"", ModelPath}, {<<>>, EarlierFrames})

\* a session with a model, at half resolution
InitIO == InitSession({F_0_5}, {ModelPath}, {<<>>, EarlierFrames})

\* a session with a model, at any scale
InitExtract == InitSession(Scales, {ModelPath}, {<<>>})

(***************************************************************************)
(* Actions: one per public operation.                                      *)
(***************************************************************************)
AddFrame(img) ==
    /\ alive
    /\ m_model_path # "" => Len(m_frames) < MaxFrames
    /\ LET r == addFrame(m_frames, m_model_path, m_frame_scale, m_pose_model, img)
       IN /\ m_frames' = r.frames
          /\ err' = r.err
          /\ ret' = r.ret
          /\ calls' = r.calls
          /\ expected' = IF r.err = "" THEN expected + 1 ELSE expected
    /\ lastOp' = "addFrame"
    /\ prevOp' = OpName
    /\ arg' = [img |-> img, size |-> Len(m_frames)]
    /\ UNCHANGED <<m_frame_scale, m_model_path, m_detector, m_pose_model,
                   artifact, alive, canvas, saved>>

SetModel(modelPath) ==
    /\ alive
    /\ LET r == setModel(Binding, modelPath)
       IN /\ m_model_path' = r.b.path
          /\ m_detector' = r.b.detector
          /\ m_pose_model' = r.b.pose
          /\ err' = r.err
    /\ lastOp' = "setModel"
    /\ prevOp' = OpName
    /\ arg' = [path |-> modelPath]
    /\ ret' = NoFrame
    /\ calls' = <<>>
    /\ UNCHANGED <<m_frames, m_frame_scale, artifact, alive, canvas, expected, saved>>

Clear ==
    /\ alive
    /\ m_frames' = clear(m_frames)
    /\ expected' = 0
    /\ lastOp' = "clear"
    /\ prevOp' = OpName
    /\ arg' = [none |-> TRUE]
    /\ err' = ""
    /\ ret' = NoFrame
    /\ calls' = <<>>
    /\ UNCHANGED <<m_frame_scale, m_model_path, m_detector, m_pose_model,
                   artifact, alive, canvas, saved>>

Load(filePath) ==
    /\ alive
    /\ LET file == IF filePath = ArtifactPath THEN artifact ELSE NoFile
       IN /\ m_frames' = load(m_frames, file)
          /\ expected' = Len(load(m_frames, file))
          /\ arg' = [path |-> filePath, size |-> Len(m_frames),
                     good |-> filePath = ArtifactPath /\ saved.valid]
    /\ lastOp' = "load"
    /\ prevOp' = OpName
    /\ err' = ""
    /\ ret' = NoFrame
    /\ calls' = <<>>
    /\ UNCHANGED <<m_frame_scale, m_model_path, m_detector, m_pose_model,
                   artifact, alive, canvas, saved>>

Save ==
    /\ alive
    /\ artifact' = save(m_frames)
    /\ saved' = [valid |-> TRUE, frames |-> m_frames, damages |-> saved.damages]
    /\ lastOp' = "save"
    /\ prevOp' = OpName
    /\ arg' = [path |-> ArtifactPath]
    /\ err' = ""
    /\ ret' = NoFrame
    /\ calls' = <<>>
    /\ UNCHANGED <<m_frames, m_frame_scale, m_model_path, m_detector, m_pose_model,
                   alive, canvas, expected>>

\* operator[]: m_frames[i] without a range check; reading past the end is
\* undefined: the caller gets whatever lies there, or the process dies
At(i) ==
    /\ alive
    /\ lastOp' = "at"
    /\ prevOp' = OpName
    /\ arg' = [i |-> i]
    /\ calls' = <<>>
    /\ \/ /\ i < Len(m_frames)
          /\ ret' = m_frames[i + 1]
          /\ err' = ""
          /\ alive' = alive
       \/ /\ i >= Len(m_frames)
          /\ ret' = GarbageFrame
          /\ err' = ""
          /\ alive' = alive
       \/ /\ i >= Len(m_frames)
          /\ ret' = NoFrame
          /\ err' = ErrCrash
          /\ alive' = FALSE
    /\ UNCHANGED <<m_frames, m_frame_scale, m_model_path, m_detector, m_pose_model,
                   artifact, canvas, expected, saved>>

\* the artifact is damaged on disk between a save and a load, at most
\* MaxDamage times: cut to zero
\* bytes, cut in the middle, or overwritten by junk
Damage ==
    /\ alive
    /\ artifact.exists
    /\ saved.valid
    /\ saved.damages < MaxDamage
    /\ \E d \in {<<>>, SubSeq(artifact.data, 1, Len(artifact.data) \div 2),
                <<BadToken>>} :
         /\ d # artifact.data
         /\ artifact' = File(d)
    /\ saved' = [valid |-> FALSE, frames |-> <<>>, damages |-> saved.damages + 1]
    /\ lastOp' = "damage"
    /\ prevOp' = OpName
    /\ arg' = [none |-> TRUE]
    /\ err' = ""
    /\ ret' = NoFrame
    /\ calls' = <<>>
    /\ UNCHANGED <<m_frames, m_frame_scale, m_model_path, m_detector, m_pose_model,
                   alive, canvas, expected>>

\* sfl::render on a landmark list
Render(landmarks, drawLabels, thickness, ub) ==
    /\ alive
    /\ LET r == render(landmarks, drawLabels, thickness, ub)
       IN /\ canvas' = r.ops
          /\ ret' = [reads |-> r.reads]
          /\ err' = IF r.crashed THEN ErrCrash ELSE ""
          /\ alive' = ~r.crashed
    /\ lastOp' = "render"
    /\ prevOp' = OpName
    /\ arg' = [n |-> Len(landmarks), landmarks |-> landmarks, drawLabels |-> drawLabels]
    /\ calls' = <<>>
    /\ UNCHANGED <<m_frames, m_frame_scale, m_model_path, m_detector, m_pose_model,
                   artifact, expected, saved>>

\* the session without the serializer's output side
Next ==
    \/ \E img \in Images : AddFrame(img)
    \/ \E modelPath \in {"", ModelPath, MissingPath} : SetModel(modelPath)
    \/ Clear
    \/ \E filePath \in {ArtifactPath, NoArtifactPath} : Load(filePath)
    \/ \E i \in 0..MaxFrames : At(i)

Spec == Init /\ [][Next]_vars

\* ingest, save, damage, load
NextIO ==
    \/ \E img \in {ImgEmpty, ImgFaces} : AddFrame(img)
    \/ Clear
    \/ Save
    \/ Damage
    \/ \E filePath \in {ArtifactPath, NoArtifactPath} : Load(filePath)

SpecIO == InitIO /\ [][NextIO]_vars

\* ingest of images whose detections cover the coordinate range
NextExtract ==
    \/ \E img \in RichImages : AddFrame(img)
    \/ Clear

SpecExtract == InitExtract /\ [][NextExtract]_vars

\* a session that only renders
InitRender == InitSession({F_1_0}, {""}, {<<>>})

NextRender ==
    \E n \in 0..MaxPoints, drawLabels \in BOOLEAN, ub \in {"read", "crash"} :
        Render(LandmarksOf(n), drawLabels, 1, ub)

SpecRender == InitRender /\ [][NextRender]_vars

(***************************************************************************)
(* Properties.                                                             *)
(***************************************************************************)
ErrMalformed == "deserialization failed"
ErrUnsupported == "unsupported image format"
ErrBounds == "bounds"

\* C1: addFrame on a session with no model bound throws the "model not set"
\* error and leaves m_frames exactly as it was (same size, same frames); an
\* unbound session therefore holds only what load produced, and holds nothing
\* if it never loaded.
C1_UnboundIngestAppendsNothing ==
    /\ [][(lastOp' = "addFrame" /\ m_model_path = "")
            => (err' = ErrNoModel /\ ret' = NoFrame /\ m_frames' = m_frames)]_vars
    /\ [](m_model_path = "" => Len(m_frames) = expected)

C1_Witness ==
    /\ lastOp = "addFrame"
    /\ err = ErrNoModel
    /\ m_model_path = ""
    /\ Len(m_frames) = 1

\* C2: load of a missing, zero-byte, truncated or schema-violating artifact
\* fails with the "deserialization failed" condition and leaves the sequence
\* empty.
C2_BadArtifactRejected ==
    (lastOp = "load" /\ ~arg.good) => (err = ErrMalformed /\ m_frames = <<>>)

\* C3: save followed by load of the undamaged artifact, into a session with any
\* prior contents, yields exactly the saved sequence: same frames, dimensions,
\* faces, boxes and landmarks, in the same order, and nothing of the prior
\* contents.
C3_RoundTrip ==
    (lastOp = "load" /\ arg.good) => m_frames = saved.frames

C3_Witness ==
    /\ lastOp = "load"
    /\ arg.good
    /\ arg.size = 1
    /\ Len(m_frames) = 2
    /\ m_frames[1].faces = <<>>
    /\ Len(m_frames[2].faces) = 2
    /\ Len(m_frames[2].faces[1].landmarks) = 2
    /\ m_frames[2].faces[1].bbox.y < 0

\* C4: addFrame of an image with a channel count other than 1 or 3, on a bound
\* session, fails with the "unsupported image format" condition before any
\* detection work: detector and predictor are not invoked and no frame has been
\* appended.
C4_UnsupportedImageFailsFast ==
    (lastOp = "addFrame" /\ m_model_path # "" /\ arg.img.channels \notin {1, 3})
        => /\ err = ErrUnsupported
           /\ \A k \in 1..Len(calls) : calls[k] \notin {"m_detector", "m_pose_model"}
           /\ Len(m_frames) = arg.size

\* C5: operator[] with an index >= size() fails with a "bounds" condition and
\* returns no frame.
C5_AtChecksBounds ==
    (lastOp = "at" /\ arg.i >= Len(m_frames)) => (err = ErrBounds /\ ret = NoFrame)

\* the faces a frame must hold for detections dets when each value goes
\* through the function round
FacesBy(round(_), dets) ==
    [i \in 1..Len(dets) |->
        [bbox |-> [x |-> round(dets[i].rect.left), y |-> round(dets[i].rect.top),
                   width |-> round(dets[i].rect.width),
                   height |-> round(dets[i].rect.height)],
         landmarks |-> [j \in 1..Len(dets[i].parts) |->
                           [x |-> round(dets[i].parts[j].x),
                            y |-> round(dets[i].parts[j].y)]]]]

\* the float quotient |x| / s is exactly a half-integer
FloatQuotientIsHalf(x, s) ==
    LET q == FloatDiv(Abs(x), s)
    IN x # 0 /\ q.e < 0 /\ q.m % Pow2(0 - q.e) = Pow2(0 - q.e - 1)

\* the exact quotient rounded half away from zero, except that a float
\* quotient that is exactly a half-integer goes to the next integer away from
\* zero
RoundOfFloatQuotient(x, s) ==
    IF FloatQuotientIsHalf(x, s)
    THEN LET q == FloatDiv(Abs(x), s) IN Sgn(x) * ((q.m \div Pow2(0 - q.e)) + 1)
    ELSE ExactRound(x, s)

\* C6 as stated: every stored bbox field and landmark coordinate equals the
\* detector/predictor value divided by scaleFactor, rounded to the nearest
\* integer with ties away from zero; one Face per box in emission order; with
\* scaleFactor 1 the values are stored unchanged.
C6_ExactScaleInversion ==
    (lastOp = "addFrame" /\ err = "")
        => LET exact(x) == ExactRound(x, m_frame_scale)
               same(x) == x
           IN /\ ret.faces = FacesBy(exact, arg.img.dets)
              /\ m_frame_scale = F_1_0 => ret.faces = FacesBy(same, arg.img.dets)

\* C6 amended: every stored bbox field and landmark coordinate equals the
\* single-precision quotient value / scaleFactor rounded to the nearest
\* integer with ties away from zero: it is the exact quotient so rounded,
\* except where the float quotient is exactly a half-integer, which goes to
\* the next integer away from zero also when the exact quotient lies just
\* below the half; one Face per box in emission order; with scaleFactor 1 the
\* values are stored unchanged.
C6_FloatScaleInversion ==
    (lastOp = "addFrame" /\ err = "")
        => LET float(x) == RoundOfFloatQuotient(x, m_frame_scale)
               same(x) == x
           IN /\ ret.faces = FacesBy(float, arg.img.dets)
              /\ m_frame_scale = F_1_0 => ret.faces = FacesBy(same, arg.img.dets)

C6_Witness ==
    /\ lastOp = "addFrame"
    /\ err = ""
    /\ m_frame_scale = F_0_4
    /\ Len(ret.faces) = 2
    /\ arg.img.dets[1].rect.left = 1
    /\ ret.faces[1].bbox.x = 3
    /\ ret.faces[1].bbox.y = 0 - 3
    /\ ret.faces[2].landmarks = <<Pt(5, 3)>>
    /\ Len(m_frames) = 2

\* the segments drawn between two indices of lo..hi
Segments(ops, lo, hi) ==
    {k \in 1..Len(ops) : ops[k].op = "line" /\ ops[k].a \in lo..hi /\ ops[k].b \in lo..hi}

\* the index ranges of the facial features: jaw, eyebrows, nose bridge, lower
\* nose (which starts at the tip of the bridge), eyes, outer and inner mouth
Features ==
    <<[lo |-> 0, hi |-> 16, closed |-> FALSE], [lo |-> 17, hi |-> 21, closed |-> FALSE],
      [lo |-> 22, hi |-> 26, closed |-> FALSE], [lo |-> 27, hi |-> 30, closed |-> FALSE],
      [lo |-> 30, hi |-> 35, closed |-> TRUE], [lo |-> 36, hi |-> 41, closed |-> TRUE],
      [lo |-> 42, hi |-> 47, closed |-> TRUE], [lo |-> 48, hi |-> 59, closed |-> TRUE],
      [lo |-> 60, hi |-> 67, closed |-> TRUE]>>

\* the drawing of a 68-point list has counts[f] segments in feature f, nothing
\* but these segments, each closed contour's closing segment from its last
\* index to its first, and every segment between the points of its indices
ContourCounts(counts) ==
    LET lines == {k \in 1..Len(canvas) : canvas[k].op = "line"}
    IN /\ \A f \in 1..Len(Features) :
            /\ Cardinality(Segments(canvas, Features[f].lo, Features[f].hi)) = counts[f]
            /\ Features[f].closed =>
                 \E k \in lines : {canvas[k].a, canvas[k].b}
                                    = {Features[f].lo, Features[f].hi}
       /\ \A k \in lines :
            /\ \E f \in 1..Len(Features) : k \in Segments(canvas, Features[f].lo,
                                                         Features[f].hi)
            /\ canvas[k].pt1 = arg.landmarks[canvas[k].a + 1]
            /\ canvas[k].pt2 = arg.landmarks[canvas[k].b + 1]
       /\ \A k \in 1..Len(canvas) : canvas[k].op \in {"line", "putText"}

\* C7 as stated: a 68-point list is drawn with 15 jaw segments, 3 per eyebrow,
\* 2 on the nose bridge, 5 on the lower nose, 5 per eye, 11 on the outer mouth
\* and 7 on the inner mouth (closing segments included), every segment inside
\* one feature, every closed contour closed from its last index to its first.
C7_ContourCountsAsStated ==
    (lastOp = "render" /\ arg.n = NumLandmarks)
        => ContourCounts(<<15, 3, 3, 2, 5, 5, 5, 11, 7>>)

\* C7 amended: a 68-point list is drawn with 16 jaw segments, 4 per eyebrow,
\* 3 on the nose bridge, 6 on the lower nose, 6 per eye, 12 on the outer mouth
\* and 8 on the inner mouth (closing segments included), every segment inside
\* one feature, every closed contour closed from its last index to its first.
C7_ContourCounts ==
    (lastOp = "render" /\ arg.n = NumLandmarks)
        => ContourCounts(<<16, 4, 4, 3, 6, 6, 6, 12, 8>>)

C7_Witness ==
    /\ lastOp = "render"
    /\ arg.n = NumLandmarks
    /\ arg.drawLabels
    /\ Len(canvas) = 65 + NumLandmarks
    /\ canvas[1] = [op |-> "line", a |-> 1, b |-> 0, pt1 |-> Pt(2, 101),
                    pt2 |-> Pt(0, 100), thickness |-> 1]

Min(a, b) == IF a < b THEN a ELSE b

\* C8: a list of n # 68 points is drawn with exactly min(n, 68) filled
\* markers, at the indices 0 .. min(n, 68) - 1, and no index >= n is read.
C8_MarkersClamped ==
    (lastOp = "render" /\ arg.n # NumLandmarks)
        => LET marks == {k \in 1..Len(canvas) : canvas[k].op = "circle"}
           IN /\ Cardinality(marks) = Min(arg.n, NumLandmarks)
              /\ {canvas[k].a : k \in marks} = 0..(Min(arg.n, NumLandmarks) - 1)
              /\ \A i \in ret.reads : i < arg.n

\* C9: a successful addFrame grows the sequence by one, stores the image's
\* original width and height in the new last frame, returns that frame and
\* leaves the earlier frames as they were; size() always equals the number of
\* successful ingests since the last clear or load plus the frames load
\* produced.
C9_IngestAppendsOne ==
    [][/\ (lastOp' = "addFrame" /\ err' = "")
            => /\ Len(m_frames') = Len(m_frames) + 1
               /\ m_frames'[Len(m_frames')].width = arg'.img.cols
               /\ m_frames'[Len(m_frames')].height = arg'.img.rows
               /\ ret' = m_frames'[Len(m_frames')]
               /\ SubSeq(m_frames', 1, Len(m_frames)) = m_frames
       /\ Len(m_frames') = expected']_vars

\* C10: setModel with an empty path and clear leave the model binding as it
\* was, and clear leaves the sequence empty; the addFrame that follows either
\* call fails with the "model not set" error exactly if no model is bound, and
\* succeeds on a 1- or 3-channel image if one is.
C10_BindingUntouched ==
    /\ [][/\ (lastOp' = "clear" \/ (lastOp' = "setModel" /\ arg'.path = ""))
               => (Binding' = Binding /\ err' = "")
          /\ lastOp' = "clear" => m_frames' = <<>>]_vars
    /\ []((lastOp = "addFrame" /\ prevOp \in {"clear", "setModel-empty"})
             => /\ err = ErrNoModel <=> m_model_path = ""
                /\ (m_model_path # "" /\ arg.img.channels \in {1, 3}) => err = "")

C10_Witness ==
    /\ lastOp = "addFrame"
    /\ prevOp = "setModel-empty"
    /\ m_model_path = ModelPath
    /\ err = ""
    /\ Len(m_frames) = 2

=============================================================================
